---- MODULE Spec2Model ----
(***************************************************************************)
(* AutoGenre Pro: the scan-then-resolve pass (handleStartScan) and the     *)
(* apply pass (handleApplyChanges) of src/src/App.tsx, as a state machine. *)
(*                                                                         *)
(* JavaScript runs each handler to completion between two awaits, so one   *)
(* action is one such segment: the code from a click, or from the          *)
(* resolution of an awaited invoke(), up to the next await or the return.  *)
(* Several invocations of a handler can be suspended at the same time.     *)
(*                                                                         *)
(* File records are objects shared by reference: setFiles(scannedFiles),   *)
(* [...scannedFiles] and [...files] all hold the same objects, so the      *)
(* model keeps the records in a heap, one sequence of records for each     *)
(* scan, and arrays are sequences of references <<scan, index>>.           *)
(***************************************************************************)
EXTENDS Integers, Sequences, FiniteSets, TLC

VARIABLES
    selectedFolder,   \* App.tsx:10  useState<string>("")
    isScanning,       \* App.tsx:11
    files,            \* App.tsx:12  the inventory: an array of object references
    progress,         \* App.tsx:13  a rational <<numerator, denominator>>
    statusMessage,    \* App.tsx:14
    settings,         \* App.tsx:16
    heap,             \* the EnhancedAudioFile objects, by the scan that created them
    loads,            \* the load_settings calls of loadSettings (App.tsx:29): how many
                      \* are pending, and whether the last one to end was rejected
    scan,             \* the invocations of handleStartScan
    apply,            \* the invocations of handleApplyChanges
    modal             \* the SettingsModal component: SettingsModal.tsx:12-23

vars == <<selectedFolder, isScanning, files, progress, statusMessage, settings,
          heap, loads, scan, apply, modal>>

----------------------------------------------------------------------------
(* Bounds of the model *)

MaxFiles == 2
MaxScans == 1
MaxApplies == 1

\* the invocations of each handler, in the order of the clicks
ScanIds == 1..MaxScans
ApplyIds == 1..MaxApplies

----------------------------------------------------------------------------
(* Values *)

\* string | null, number | null, and optional fields: <<>> is null/undefined,
\* <<v>> is the value v.
Null == <<>>
Some(v) == <<v>>

\* JavaScript truthiness of a string | null | undefined and of a number | null
TruthyStr(x) == x # Null /\ x[1] # ""
TruthyNum(x) == x # Null /\ x[1] # 0

\* x || null
StrOrNull(x) == IF TruthyStr(x) THEN x ELSE Null
NumOrNull(x) == IF TruthyNum(x) THEN x ELSE Null

\* file.current_metadata?.field  (undefined when current_metadata is null)
Field(file, f) == IF file.current_metadata = Null THEN Null
                  ELSE file.current_metadata[1][f]

Folders == {"/music"}
ErrorMessages == {"io error"}

Last(seq) == seq[Len(seq)]
Front(seq) == SubSeq(seq, 1, Len(seq) - 1)

\* progress values are rationals in lowest terms
RECURSIVE Gcd(_, _)
Gcd(a, b) == IF b = 0 THEN a ELSE Gcd(b, a % b)
Frac(a, b) == LET g == Gcd(a, b) IN <<a \div g, b \div g>>
Leq(p, q) == p[1] * q[2] <= q[1] * p[2]

----------------------------------------------------------------------------
(* Data: types.ts *)

\* Metadata (types.ts:8-15); every field is nullable
Meta(title, artist, album, genre, year, bpm) ==
    [title |-> title, artist |-> artist, album |-> album, genre |-> genre,
     year |-> year, bpm |-> bpm]

\* MetadataResult (types.ts:17-22)
Result(genre, artist, confidence, source) ==
    [genre |-> genre, artist |-> artist, confidence |-> confidence, source |-> source]

\* EnhancedAudioFile (types.ts:1-6, 24-27) as scan_folder creates it:
\* suggested_metadata and selected_genre are absent.
File(folder, name, meta) ==
    [path |-> <<folder, name>>, filename |-> name, extension |-> "mp3",
     current_metadata |-> meta, suggested_metadata |-> Null, selected_genre |-> Null]

\* What a folder may hold: the tags scan_folder can read from a file.
SampleTags ==
    [ one      |-> Some(Meta(Some("One More Time"), Some("Daft Punk"), Null, Null,
                             Some(2000), Some(123))),
      zero     |-> Some(Meta(Some("Zero"), Some("Nobody"), Some("LP"), Some("Rock"),
                             Some(0), Null)),
      untitled |-> Some(Meta(Some(""), Some("Daft Punk"), Null, Some("Rock"), Null,
                             Some(0))),
      raw      |-> Null ]

SampleNames == DOMAIN SampleTags

\* The inventories scan_folder can return: up to MaxFiles files with distinct
\* names, in any order.
RECURSIVE NamesOfLen(_)
NamesOfLen(n) ==
    IF n = 0 THEN {<<>>}
    ELSE { Append(names, nm) : names \in NamesOfLen(n - 1), nm \in SampleNames }

Distinct(seq) == \A a, b \in 1..Len(seq) : a # b => seq[a] # seq[b]

InventoryNames == { v \in UNION { NamesOfLen(n) : n \in 0..MaxFiles } : Distinct(v) }

Inventories(folder) ==
    { [k \in 1..Len(names) |-> File(folder, names[k] \o ".mp3", SampleTags[names[k]])] :
        names \in InventoryNames }

\* What fetch_metadata can return for a file: any sequence of MetadataResult.
RHigh  == Result(Some("House"), Some("Daft Punk"), "High", "X")
RGenre == Result(Some("Pop"), Null, "Medium", "Y")
RNone  == Result(Null, Null, "Low", "Z")
RLow   == Result(Some("Jazz"), Null, "Low", "W")

\* The Ranker behind fetch_metadata (spec.md section 4.2): the results in the
\* order of confidence, High then Medium then Low, those of one confidence in
\* the order of their arrival.
Rank(results) ==
    LET Of(c) == SelectSeq(results, LAMBDA r : r.confidence = c)
    IN (Of("High") \o Of("Medium")) \o Of("Low")

\* What the providers may answer for a file, in the order of arrival.
Arrivals == { <<>>, <<RHigh>>, <<RGenre>>, <<RNone, RHigh>>, <<RNone, RLow>> }

FetchResults == { Rank(arrived) : arrived \in Arrivals }

\* The heap holds the objects of each scan of ScanIds, and under EarlierScan
\* those of a scan whose invocation returned before the ones of ScanIds began.
EarlierScan == 0
HeapIds == {EarlierScan} \cup ScanIds

\* a reference to a file object, and the object it denotes in heap h
Obj(h, ref) == h[ref[1]][ref[2]]

\* the heap with field f of the object at ref set to v
SetField(h, ref, f, v) == [h EXCEPT ![ref[1]][ref[2]][f] = v]

----------------------------------------------------------------------------
(* State after construction: App.tsx:10-27 *)

DefaultSettings ==
    [spotify_client_id |-> "", spotify_client_secret |-> "", folder_pattern |-> "{genre}",
     backup_before_changes |-> TRUE, organize_files |-> FALSE, rename_files |-> FALSE]

\* What load_settings can return: any saved AppSettings.
SavedSettings ==
    { [DefaultSettings EXCEPT !.backup_before_changes = b, !.organize_files = o,
                              !.rename_files = r] : b, o, r \in BOOLEAN }

\* An invocation of handleStartScan: where it is suspended (pc), its closure
\* (path: selectedFolder at the click) and its locals.  calls, progs and msgs
\* record what it has done: the invoke() calls it has made, and the values
\* it has passed to setProgress and to setStatusMessage.  stopAt is the
\* position of the file in flight when Stop Scan was pressed.
IdleScan ==
    [pc |-> "idle", path |-> "", scannedFiles |-> <<>>, i |-> 0,
     calls |-> <<>>, progs |-> <<>>, msgs |-> <<>>, stopAt |-> 0]

\* An invocation of handleApplyChanges: its closure (files, settings,
\* selectedFolder at the click) and its locals.  before is the records of the
\* inventory at the click; overlapped is whether another invocation of
\* handleApplyChanges has been suspended at the same time as this one.
IdleApply ==
    [pc |-> "idle", files |-> <<>>, settings |-> DefaultSettings, selectedFolder |-> "",
     updatedFiles |-> <<>>, i |-> 0, successCount |-> 0, errorCount |-> 0,
     organizedCount |-> 0, errors |-> <<>>, updatedMetadata |-> Null,
     currentPath |-> <<>>, calls |-> <<>>, progs |-> <<>>, msgs |-> <<>>,
     before |-> <<>>, overlapped |-> FALSE]

\* the one call made when the component is mounted
LoadsPending == [pending |-> 1, rejected |-> FALSE]

\* The SettingsModal as it is mounted (SettingsModal.tsx:13-23, App.tsx:15):
\* isOpen is showSettings of App; loading is the number of pending
\* load_settings calls of its loadSettings; saves is the pending save_settings
\* calls, each with the settings it was given; timers is the pending
\* setTimeout callbacks in the order of their creation, "close" the one of
\* line 46 (1000 ms) and "reset" the one of line 53 (3000 ms).
ClosedModal ==
    [isOpen |-> FALSE, settings |-> DefaultSettings, saveStatus |-> "idle",
     errorMessage |-> "", loading |-> 0, saves |-> <<>>, timers |-> <<>>]

Init ==
    /\ selectedFolder = ""
    /\ isScanning = FALSE
    /\ files = <<>>
    /\ progress = Frac(0, 1)
    /\ statusMessage = "Ready to scan"
    /\ settings = DefaultSettings
    /\ heap = [s \in HeapIds |-> <<>>]
    /\ loads = LoadsPending            \* useEffect(() => { loadSettings(); }, [])
    /\ scan = [s \in ScanIds |-> IdleScan]
    /\ apply = [a \in ApplyIds |-> IdleApply]
    /\ modal = ClosedModal

ScanInFlight(s) == scan[s].pc \in {"scan_folder", "fetch_metadata"}
ApplyInFlight(a) == apply[a].pc \in {"update_metadata", "rename_file", "organize_files"}

ScanReturned(s) == scan[s].pc \in {"completed", "error"}
ApplyReturned(a) == apply[a].pc = "done"

\* The locals of an invocation cease to exist when the handler returns.  The
\* record of a returned invocation is kept until the next step of any pass,
\* so that what the pass has left behind can be inspected; then only the fact
\* that it has run remains.
RetiredScans ==
    [s \in ScanIds |-> IF ScanReturned(s) THEN [IdleScan EXCEPT !.pc = "returned"]
                       ELSE scan[s]]
RetiredApplies ==
    [a \in ApplyIds |-> IF ApplyReturned(a) THEN [IdleApply EXCEPT !.pc = "returned"]
                        ELSE apply[a]]

\* the scans some object of which is referenced from the array arr
ScansOf(arr) == { arr[k][1] : k \in 1..Len(arr) }

\* Garbage collection: the objects that neither files nor an invocation
\* references are dropped from the heap h.
Collect(h, fl, scn, app) ==
    LET live == ScansOf(fl)
                \cup UNION { ScansOf(scn[s].scannedFiles) : s \in ScanIds }
                \cup UNION { ScansOf(app[a].files) \cup ScansOf(app[a].updatedFiles)
                               : a \in ApplyIds }
    IN [s \in HeapIds |-> IF s \in live THEN h[s] ELSE <<>>]

\* setProgress and setStatusMessage: the state holds the last value that the
\* segment has passed, if it has passed one (was: the record before the segment)
Published(log, was, current) == IF Len(log) > Len(was) THEN log[Len(log)] ELSE current

\* A segment of invocation s of handleStartScan, which leaves it as sc, the
\* heap as h and files as fl.
ScanStep(s, sc, h, fl) ==
    LET scn == [RetiredScans EXCEPT ![s] = sc]
    IN /\ scan' = scn
       /\ apply' = RetiredApplies
       /\ files' = fl
       /\ heap' = Collect(h, fl, scn, RetiredApplies)
       /\ progress' = Published(sc.progs, scan[s].progs, progress)
       /\ statusMessage' = Published(sc.msgs, scan[s].msgs, statusMessage)

\* The same for invocation a of handleApplyChanges.
ApplyStep(a, ap, h, fl) ==
    LET app1 == [RetiredApplies EXCEPT ![a] = ap]
        suspended == { b \in ApplyIds :
                         app1[b].pc \in {"update_metadata", "rename_file", "organize_files"} }
        app == [b \in ApplyIds |->
                  IF b \in suspended /\ Cardinality(suspended) > 1
                  THEN [app1[b] EXCEPT !.overlapped = TRUE] ELSE app1[b]]
    IN /\ apply' = app
       /\ scan' = RetiredScans
       /\ files' = fl
       /\ heap' = Collect(h, fl, RetiredScans, app)
       /\ progress' = Published(ap.progs, apply[a].progs, progress)
       /\ statusMessage' = Published(ap.msgs, apply[a].msgs, statusMessage)

----------------------------------------------------------------------------
(* loadSettings: App.tsx:29-36 *)

LoadSettingsOk ==
    /\ loads.pending > 0
    /\ \E loadedSettings \in SavedSettings : settings' = loadedSettings
    /\ loads' = [pending |-> loads.pending - 1, rejected |-> FALSE]
    /\ UNCHANGED <<selectedFolder, isScanning, files, progress, statusMessage, heap,
                   scan, apply, modal>>

\* the catch block only writes to the console
LoadSettingsError ==
    /\ loads.pending > 0
    /\ loads' = [pending |-> loads.pending - 1, rejected |-> TRUE]
    /\ UNCHANGED <<selectedFolder, isScanning, files, progress, statusMessage, settings,
                   heap, scan, apply, modal>>

----------------------------------------------------------------------------
(* handleSelectFolder: App.tsx:38-53.  The handler reads no state before its *)
(* await and writes only after it, so it is one step, taken when the dialog  *)
(* resolves.  A cancelled dialog (selected = null) changes nothing.          *)

SelectFolder(selected) ==
    /\ selectedFolder' = selected
    /\ statusMessage' = "Selected: " \o selected
    /\ UNCHANGED <<isScanning, files, progress, settings, heap, loads, scan, apply,
                   modal>>

SelectFolderOk == \E selected \in Folders : SelectFolder(selected)

SelectFolderError ==
    /\ statusMessage' = "Error selecting folder"
    /\ UNCHANGED <<selectedFolder, isScanning, files, progress, settings, heap, loads,
                   scan, apply, modal>>

----------------------------------------------------------------------------
(* handleStartScan: App.tsx:55-99 *)

\* App.tsx:215  the Start/Stop button is disabled without a folder
ScanButtonEnabled == selectedFolder # ""

\* The guard of App.tsx:76 without its second conjunct.
EligibleArtistOnly(file) == TruthyStr(Field(file, "artist"))

\* App.tsx:76  file.current_metadata?.artist && file.current_metadata?.title
Eligible(file) == TruthyStr(Field(file, "artist")) /\ TruthyStr(Field(file, "title"))

\* App.tsx:87  50 + ((i + 1) / scannedFiles.length) * 50, i counted from 0
ResolveProgress(i, n) == Frac(50 * n + (i + 1) * 50, n)

\* the first position from `from` on (counted from 1) whose file is fetched;
\* Len(arr) + 1 when the loop runs to its end
RECURSIVE NextEligible(_, _, _)
NextEligible(arr, h, from) ==
    IF from > Len(arr) THEN from
    ELSE IF Eligible(Obj(h, arr[from])) THEN from
    ELSE NextEligible(arr, h, from + 1)

FetchCall(pos, file) ==
    [op |-> "fetch_metadata", pos |-> pos, artist |-> Field(file, "artist"),
     title |-> Field(file, "title"), res |-> "pending", arrived |-> <<>>, result |-> <<>>]

\* the outcome of the pending call, the last of the calls made
Settle(calls, res) == [calls EXCEPT ![Len(calls)].res = res]

\* App.tsx:74-98  the loop from position `from` up to its next await, or to the
\* end of the handler.  sc, h and fl are the invocation, the heap and files
\* as the segment has left them so far.
ResolveFrom(s, sc, h, from, fl) ==
    LET arr == sc.scannedFiles
        n == Len(arr)
        j == NextEligible(arr, h, from)
        \* App.tsx:87 for the files passed over
        skipped == [k \in 1..(j - from) |-> ResolveProgress(from + k - 2, n)]
    IN  IF j <= n
        THEN \* App.tsx:78  await invoke("fetch_metadata", ...)
             /\ ScanStep(s, [sc EXCEPT !.pc = "fetch_metadata", !.i = j,
                                !.calls = Append(@, FetchCall(j, Obj(h, arr[j]))),
                                !.progs = @ \o skipped], h, fl)
             /\ UNCHANGED isScanning
        ELSE \* App.tsx:90-92, 97
             /\ ScanStep(s, [sc EXCEPT !.pc = "completed", !.i = j,
                                !.progs = (@ \o skipped) \o <<Frac(100, 1)>>,
                                !.msgs = Append(@, "Completed! Processed "
                                                   \o ToString(n) \o " files")],
                         h, arr)
             /\ isScanning' = FALSE

\* App.tsx:214  onClick of the button while isScanning is false; App.tsx:55-68
StartScan(s) ==
    /\ ScanButtonEnabled
    /\ ~isScanning
    /\ scan[s].pc = "idle"
    /\ \A r \in ScanIds : r < s => scan[r].pc # "idle"
    /\ IF selectedFolder = ""
       THEN /\ statusMessage' = "Please select a folder first"
            /\ UNCHANGED <<isScanning, progress, scan, apply, heap, files>>
       ELSE /\ isScanning' = TRUE
            /\ ScanStep(s, [IdleScan EXCEPT !.pc = "scan_folder", !.path = selectedFolder,
                                            !.msgs = <<"Scanning for audio files...">>,
                                            !.progs = <<Frac(10, 1)>>], heap, files)
    /\ UNCHANGED <<selectedFolder, settings, loads, modal>>

\* App.tsx:214  onClick of the button while isScanning is true
StopScan ==
    /\ ScanButtonEnabled
    /\ isScanning
    /\ isScanning' = FALSE
    /\ scan' = [s \in ScanIds |->
                 IF scan[s].pc = "fetch_metadata" /\ scan[s].stopAt = 0
                 THEN [scan[s] EXCEPT !.stopAt = scan[s].i]
                 ELSE scan[s]]
    /\ UNCHANGED <<selectedFolder, files, progress, statusMessage, settings, heap,
                   loads, apply, modal>>

\* scan_folder returned, in a handler that appends the files found to the
\* inventory (setFiles([...files, ...scannedFiles]) at App.tsx:68).
ScanFolderOkMerging(s) ==
    /\ scan[s].pc = "scan_folder"
    /\ \E scannedFiles \in Inventories(scan[s].path) :
         LET n == Len(scannedFiles)
             refs == [k \in 1..n |-> <<s, k>>]
         IN ResolveFrom(s,
               [scan[s] EXCEPT !.scannedFiles = refs,
                               !.progs = Append(@, Frac(50, 1)),
                               !.msgs = Append(@, "Found " \o ToString(n)
                                                  \o " audio files. Fetching metadata...")],
               [heap EXCEPT ![s] = scannedFiles], 1, files \o refs)
    /\ UNCHANGED <<selectedFolder, settings, loads, modal>>

\* App.tsx:66-72  scan_folder returned the inventory
ScanFolderOk(s) ==
    /\ scan[s].pc = "scan_folder"
    /\ \E scannedFiles \in Inventories(scan[s].path) :
         LET n == Len(scannedFiles)
             refs == [k \in 1..n |-> <<s, k>>]
         IN ResolveFrom(s,
               [scan[s] EXCEPT !.scannedFiles = refs,
                               !.progs = Append(@, Frac(50, 1)),
                               !.msgs = Append(@, "Found " \o ToString(n)
                                                  \o " audio files. Fetching metadata...")],
               [heap EXCEPT ![s] = scannedFiles], 1, refs)
    /\ UNCHANGED <<selectedFolder, settings, loads, modal>>

\* scan_folder failed, in a handler that empties the inventory before the call
\* (setFiles([]) ahead of App.tsx:66).
ScanFolderErrorClears(s) ==
    /\ scan[s].pc = "scan_folder"
    /\ \E error \in ErrorMessages :
         ScanStep(s, [scan[s] EXCEPT !.pc = "error",
                                     !.msgs = Append(@, "Error: " \o error)], heap, <<>>)
    /\ isScanning' = FALSE
    /\ UNCHANGED <<selectedFolder, settings, loads, modal>>

\* App.tsx:93-98  scan_folder failed
ScanFolderError(s) ==
    /\ scan[s].pc = "scan_folder"
    /\ \E error \in ErrorMessages :
         ScanStep(s, [scan[s] EXCEPT !.pc = "error",
                                     !.msgs = Append(@, "Error: " \o error)], heap, files)
    /\ isScanning' = FALSE
    /\ UNCHANGED <<selectedFolder, settings, loads, modal>>

\* The assignment of App.tsx:82 with the results in the reverse order.
AttachSuggestionsReversed(h, ref, metadata) ==
    SetField(h, ref, "suggested_metadata",
             Some([k \in 1..Len(metadata) |-> metadata[Len(metadata) + 1 - k]]))

\* App.tsx:82  file.suggested_metadata = metadata
AttachSuggestions(h, ref, metadata) ==
    SetField(h, ref, "suggested_metadata", Some(metadata))

\* App.tsx:87-88  after the try/catch of the file in flight: its progress, then
\* the rest of the loop; h is the heap as the try/catch has left it
AfterFetch(s, sc, h) ==
    LET p == ResolveProgress(sc.i - 1, Len(sc.scannedFiles))
    IN ResolveFrom(s, [sc EXCEPT !.progs = Append(@, p)], h, sc.i + 1, files)

\* fetch_metadata returned, in a loop that drops the result once isScanning is
\* false (a cancellation that reaches the file in flight).
FetchMetadataOkUnlessStopped(s) ==
    /\ scan[s].pc = "fetch_metadata"
    /\ \E arrived \in Arrivals :
         LET sc == scan[s]
             metadata == Rank(arrived)
         IN AfterFetch(s,
               [sc EXCEPT !.calls = [Settle(@, "ok") EXCEPT ![Len(@)].arrived = arrived,
                                                            ![Len(@)].result = metadata]],
               IF isScanning THEN AttachSuggestions(heap, sc.scannedFiles[sc.i], metadata)
               ELSE heap)
    /\ UNCHANGED <<selectedFolder, settings, loads, modal>>

\* App.tsx:78-88  fetch_metadata returned
FetchMetadataOk(s) ==
    /\ scan[s].pc = "fetch_metadata"
    /\ \E arrived \in Arrivals :
         LET sc == scan[s]
             metadata == Rank(arrived)
         IN AfterFetch(s,
               [sc EXCEPT !.calls = [Settle(@, "ok") EXCEPT ![Len(@)].arrived = arrived,
                                                            ![Len(@)].result = metadata]],
               AttachSuggestions(heap, sc.scannedFiles[sc.i], metadata))
    /\ UNCHANGED <<selectedFolder, settings, loads, modal>>

\* fetch_metadata failed, in a loop without the inner try/catch of App.tsx:77-86:
\* the error reaches the outer catch of App.tsx:93-98.
FetchMetadataErrorAborts(s) ==
    /\ scan[s].pc = "fetch_metadata"
    /\ \E error \in ErrorMessages :
         ScanStep(s, [scan[s] EXCEPT !.pc = "error", !.calls = Settle(@, "err"),
                                     !.msgs = Append(@, "Error: " \o error)], heap, files)
    /\ isScanning' = FALSE
    /\ UNCHANGED <<selectedFolder, settings, loads, modal>>

\* App.tsx:83-88  fetch_metadata failed: the inner catch writes to the console
FetchMetadataError(s) ==
    /\ scan[s].pc = "fetch_metadata"
    /\ AfterFetch(s, [scan[s] EXCEPT !.calls = Settle(@, "err")], heap)
    /\ UNCHANGED <<selectedFolder, settings, loads, modal>>

----------------------------------------------------------------------------
(* The collaborators behind rename_file and organize_files (spec.md section 6) *)

Text(x) == IF x = Null THEN "Unknown" ELSE x[1]

\* rename_file: the file renamed to "Artist - Title" in its directory
RenamedPath(path, metadata) ==
    Append(Front(path), Text(metadata.artist) \o " - " \o Text(metadata.title) \o ".mp3")

\* organize_files: the file moved under base_folder by the pattern {genre}
OrganizedPath(path, metadata, base_folder) ==
    <<base_folder, Text(metadata.genre), Last(path)>>

----------------------------------------------------------------------------
(* handleApplyChanges: App.tsx:101-194 *)

\* App.tsx:278  disabled={files.length === 0 || isScanning}
ApplyButtonEnabled == ~(Len(files) = 0 \/ isScanning)

\* a || b || null on strings
FirstTruthy(a, b) == IF TruthyStr(a) THEN a ELSE StrOrNull(b)

\* The guard of App.tsx:113-117 looking at every suggestion of the list rather
\* than at suggested_metadata[0].
ApplicableAny(file) ==
    /\ file.suggested_metadata # Null
    /\ \E k \in DOMAIN file.suggested_metadata[1] :
         \/ TruthyStr(file.suggested_metadata[1][k].genre)
         \/ TruthyStr(file.suggested_metadata[1][k].artist)

\* App.tsx:113-117  the file has a suggestion and its first one has a genre or an artist
Applicable(file) ==
    /\ file.suggested_metadata # Null
    /\ Len(file.suggested_metadata[1]) > 0
    /\ \/ TruthyStr(file.suggested_metadata[1][1].genre)
       \/ TruthyStr(file.suggested_metadata[1][1].artist)

\* updatedMetadata of App.tsx:119-126 with year taken from the bpm of the
\* file and bpm from its year.
EffectiveMetadataSwapped(file) ==
    LET suggestedGenre == file.suggested_metadata[1][1].genre
        suggestedArtist == file.suggested_metadata[1][1].artist
    IN Meta(StrOrNull(Field(file, "title")),
            FirstTruthy(suggestedArtist, Field(file, "artist")),
            StrOrNull(Field(file, "album")),
            FirstTruthy(suggestedGenre, Field(file, "genre")),
            NumOrNull(Field(file, "bpm")),
            NumOrNull(Field(file, "year")))

\* App.tsx:114-126  updatedMetadata
EffectiveMetadata(file) ==
    LET suggestedGenre == file.suggested_metadata[1][1].genre
        suggestedArtist == file.suggested_metadata[1][1].artist
    IN Meta(StrOrNull(Field(file, "title")),
            FirstTruthy(suggestedArtist, Field(file, "artist")),
            StrOrNull(Field(file, "album")),
            FirstTruthy(suggestedGenre, Field(file, "genre")),
            NumOrNull(Field(file, "year")),
            NumOrNull(Field(file, "bpm")))

\* App.tsx:176 with i in the place of i + 1.
ApplyProgressBefore(i, n) == Frac(i * 100, n)

\* App.tsx:176  ((i + 1) / files.length) * 100, i counted from 0
ApplyProgress(i, n) == Frac((i + 1) * 100, n)

\* The message of App.tsx:185-191 without the tests of lines 186 and 189.
SummaryMessageInFull(successCount, organizedCount, errorCount) ==
    ("Completed! " \o ToString(successCount) \o " files updated successfully")
    \o (", " \o ToString(organizedCount) \o " organized")
    \o (", " \o ToString(errorCount) \o " failed")

\* App.tsx:185-191
SummaryMessage(successCount, organizedCount, errorCount) ==
    ("Completed! " \o ToString(successCount) \o " files updated successfully")
    \o (IF organizedCount > 0 THEN ", " \o ToString(organizedCount) \o " organized" ELSE "")
    \o (IF errorCount > 0 THEN ", " \o ToString(errorCount) \o " failed" ELSE "")

RECURSIVE NextApplicable(_, _, _)
NextApplicable(arr, h, from) ==
    IF from > Len(arr) THEN from
    ELSE IF Applicable(Obj(h, arr[from])) THEN from
    ELSE NextApplicable(arr, h, from + 1)

Call(op, pos, file_path, metadata, backup, base_folder) ==
    [op |-> op, pos |-> pos, file_path |-> file_path, metadata |-> metadata,
     backup |-> backup, base_folder |-> base_folder, res |-> "pending",
     newPath |-> <<>>]

\* App.tsx:110-193  the loop from position `from` up to its next await, or to the
\* end of the handler
ApplyFrom(a, ap, h, from) ==
    LET n == Len(ap.files)
        j == NextApplicable(ap.files, h, from)
        \* App.tsx:176 for the files passed over
        skipped == [k \in 1..(j - from) |-> ApplyProgress(from + k - 2, n)]
    IN  IF j <= n
        THEN \* App.tsx:119-132  await invoke("update_metadata", ...)
             LET file == Obj(h, ap.files[j])
                 updatedMetadata == EffectiveMetadata(file)
             IN ApplyStep(a,
                   [ap EXCEPT !.pc = "update_metadata", !.i = j,
                              !.updatedMetadata = updatedMetadata,
                              !.calls = Append(@, Call("update_metadata", j, file.path,
                                            updatedMetadata,
                                            ap.settings.backup_before_changes, "")),
                              !.progs = @ \o skipped], h, files)
        ELSE \* App.tsx:179-193
             ApplyStep(a,
                [ap EXCEPT !.pc = "done", !.i = j, !.progs = @ \o skipped,
                           !.msgs = Append(@, SummaryMessage(ap.successCount,
                                                 ap.organizedCount, ap.errorCount))],
                h, ap.updatedFiles)

\* Apply Changes with updatedFiles as the array files in the reverse order
\* rather than the copy [...files] of App.tsx:108.
ApplyClickReversed(a) ==
    /\ ApplyButtonEnabled
    /\ apply[a].pc = "idle"
    /\ \A b \in ApplyIds : b < a => apply[b].pc # "idle"
    /\ ApplyFrom(a, [IdleApply EXCEPT
                       !.files = files, !.settings = settings,
                       !.selectedFolder = selectedFolder, 
                       !.updatedFiles = [k \in 1..Len(files) |-> files[Len(files) + 1 - k]],
                       !.msgs = <<"Applying metadata changes...">>,
                       !.progs = <<Frac(0, 1)>>,
                       !.before = [k \in 1..Len(files) |-> Obj(heap, files[k])]],
                 heap, 1)
    /\ UNCHANGED <<selectedFolder, isScanning, settings, loads, modal>>

\* App.tsx:277  onClick of Apply Changes; App.tsx:102-108
ApplyClick(a) ==
    /\ ApplyButtonEnabled
    /\ apply[a].pc = "idle"
    /\ \A b \in ApplyIds : b < a => apply[b].pc # "idle"
    /\ ApplyFrom(a, [IdleApply EXCEPT
                       !.files = files, !.settings = settings,
                       !.selectedFolder = selectedFolder, !.updatedFiles = files,
                       !.msgs = <<"Applying metadata changes...">>,
                       !.progs = <<Frac(0, 1)>>,
                       !.before = [k \in 1..Len(files) |-> Obj(heap, files[k])]],
                 heap, 1)
    /\ UNCHANGED <<selectedFolder, isScanning, settings, loads, modal>>

\* App.tsx:176-177  after the body of the loop for the file in flight: its
\* progress, then the rest of the loop
AfterFile(a, ap, h) ==
    LET p == ApplyProgress(ap.i - 1, Len(ap.files))
    IN ApplyFrom(a, [ap EXCEPT !.progs = Append(@, p)], h, ap.i + 1)

\* App.tsx:166  successCount++
FileUpdated(a, ap, h) == AfterFile(a, [ap EXCEPT !.successCount = @ + 1], h)

\* The step of App.tsx:152-164 without settings.organize_files in its guard.
OrganizeWheneverFolder(a, ap, h) ==
    IF ap.selectedFolder # ""
    THEN ApplyStep(a,
            [ap EXCEPT !.pc = "organize_files",
                       !.calls = Append(@, Call("organize_files", ap.i, ap.currentPath,
                                     ap.updatedMetadata, FALSE, ap.selectedFolder))],
            h, files)
    ELSE FileUpdated(a, ap, h)

\* App.tsx:152-164  organize_files is called when enabled and a folder is selected
Organize(a, ap, h) ==
    IF ap.settings.organize_files /\ ap.selectedFolder # ""
    THEN ApplyStep(a,
            [ap EXCEPT !.pc = "organize_files",
                       !.calls = Append(@, Call("organize_files", ap.i, ap.currentPath,
                                     ap.updatedMetadata, FALSE, ap.selectedFolder))],
            h, files)
    ELSE FileUpdated(a, ap, h)

\* App.tsx:138-150  rename_file is called when enabled
Rename(a, ap, h) ==
    IF ap.settings.rename_files
    THEN ApplyStep(a,
            [ap EXCEPT !.pc = "rename_file",
                       !.calls = Append(@, Call("rename_file", ap.i, ap.currentPath,
                                     ap.updatedMetadata, FALSE, ""))],
            h, files)
    ELSE Organize(a, ap, h)

\* App.tsx:128-136  update_metadata succeeded
UpdateMetadataOk(a) ==
    /\ apply[a].pc = "update_metadata"
    /\ LET ap == apply[a]
           h == SetField(heap, ap.updatedFiles[ap.i], "current_metadata",
                         Some(ap.updatedMetadata))
       IN Rename(a, [ap EXCEPT !.calls = Settle(@, "ok"),
                               !.currentPath = Obj(h, ap.files[ap.i]).path], h)
    /\ UNCHANGED <<selectedFolder, isScanning, settings, loads, modal>>

\* update_metadata failed, in a loop whose rename and organize steps are outside
\* the try block of the write: the failure is recorded and the file goes on.
UpdateMetadataErrorThenRename(a) ==
    /\ apply[a].pc = "update_metadata"
    /\ \E errorMsg \in ErrorMessages :
         LET ap == apply[a]
             file == Obj(heap, ap.files[ap.i])
         IN Rename(a, [ap EXCEPT !.calls = Settle(@, "err"),
                                 !.errors = Append(@, file.filename \o ": " \o errorMsg),
                                 !.errorCount = @ + 1,
                                 !.currentPath = file.path], heap)
    /\ UNCHANGED <<selectedFolder, isScanning, settings, loads, modal>>

\* update_metadata failed, in a loop that makes the assignment of App.tsx:134
\* before the await of App.tsx:128.
UpdateMetadataErrorAssigned(a) ==
    /\ apply[a].pc = "update_metadata"
    /\ \E errorMsg \in ErrorMessages :
         LET ap == apply[a]
             file == Obj(heap, ap.files[ap.i])
         IN AfterFile(a, [ap EXCEPT !.calls = Settle(@, "err"),
                                    !.errors = Append(@, file.filename \o ": " \o errorMsg),
                                    !.errorCount = @ + 1],
                      SetField(heap, ap.updatedFiles[ap.i], "current_metadata",
                               Some(ap.updatedMetadata)))
    /\ UNCHANGED <<selectedFolder, isScanning, settings, loads, modal>>

\* App.tsx:167-172  update_metadata failed
UpdateMetadataError(a) ==
    /\ apply[a].pc = "update_metadata"
    /\ \E errorMsg \in ErrorMessages :
         LET ap == apply[a]
             file == Obj(heap, ap.files[ap.i])
         IN AfterFile(a, [ap EXCEPT !.calls = Settle(@, "err"),
                                    !.errors = Append(@, file.filename \o ": " \o errorMsg),
                                    !.errorCount = @ + 1], heap)
    /\ UNCHANGED <<selectedFolder, isScanning, settings, loads, modal>>

\* App.tsx:146  newPath.split('/').pop() || updatedFiles[i].filename
FilenameOf(newPath, filename) == IF Last(newPath) # "" THEN Last(newPath) ELSE filename

\* rename_file succeeded, in a loop without the assignment currentPath = newPath
\* of App.tsx:144.
RenameFileOkKeepsCurrentPath(a) ==
    /\ apply[a].pc = "rename_file"
    /\ LET ap == apply[a]
           ref == ap.updatedFiles[ap.i]
           newPath == RenamedPath(ap.currentPath, ap.updatedMetadata)
           h == SetField(SetField(heap, ref, "path", newPath), ref, "filename",
                         FilenameOf(newPath, Obj(heap, ref).filename))
       IN Organize(a, [ap EXCEPT !.calls = [Settle(@, "ok") EXCEPT ![Len(@)].newPath = newPath]],
                   h)
    /\ UNCHANGED <<selectedFolder, isScanning, settings, loads, modal>>

\* App.tsx:140-146  rename_file succeeded
RenameFileOk(a) ==
    /\ apply[a].pc = "rename_file"
    /\ LET ap == apply[a]
           ref == ap.updatedFiles[ap.i]
           newPath == RenamedPath(ap.currentPath, ap.updatedMetadata)
           h == SetField(SetField(heap, ref, "path", newPath), ref, "filename",
                         FilenameOf(newPath, Obj(heap, ref).filename))
       IN Organize(a, [ap EXCEPT !.calls = [Settle(@, "ok") EXCEPT ![Len(@)].newPath = newPath],
                                 !.currentPath = newPath], h)
    /\ UNCHANGED <<selectedFolder, isScanning, settings, loads, modal>>

\* rename_file failed, in a loop without the inner try/catch of App.tsx:139-149:
\* the error reaches the catch of App.tsx:167-172.
RenameFileErrorCounted(a) ==
    /\ apply[a].pc = "rename_file"
    /\ \E errorMsg \in ErrorMessages :
         LET ap == apply[a]
             file == Obj(heap, ap.files[ap.i])
         IN AfterFile(a, [ap EXCEPT !.calls = Settle(@, "err"),
                                    !.errors = Append(@, file.filename \o ": " \o errorMsg),
                                    !.errorCount = @ + 1], heap)
    /\ UNCHANGED <<selectedFolder, isScanning, settings, loads, modal>>

\* App.tsx:147-149  rename_file failed: written to the console
RenameFileError(a) ==
    /\ apply[a].pc = "rename_file"
    /\ Organize(a, [apply[a] EXCEPT !.calls = Settle(@, "err")], heap)
    /\ UNCHANGED <<selectedFolder, isScanning, settings, loads, modal>>

\* App.tsx:154-160  organize_files succeeded
OrganizeFilesOk(a) ==
    /\ apply[a].pc = "organize_files"
    /\ LET ap == apply[a]
           newPath == OrganizedPath(ap.currentPath, ap.updatedMetadata, ap.selectedFolder)
       IN FileUpdated(a, [ap EXCEPT !.calls = [Settle(@, "ok") EXCEPT ![Len(@)].newPath = newPath],
                                    !.organizedCount = @ + 1],
                      SetField(heap, ap.updatedFiles[ap.i], "path", newPath))
    /\ UNCHANGED <<selectedFolder, isScanning, settings, loads, modal>>

\* App.tsx:161-163  organize_files failed: written to the console
OrganizeFilesError(a) ==
    /\ apply[a].pc = "organize_files"
    /\ FileUpdated(a, [apply[a] EXCEPT !.calls = Settle(@, "err")], heap)
    /\ UNCHANGED <<selectedFolder, isScanning, settings, loads, modal>>

----------------------------------------------------------------------------

Next ==
    \/ LoadSettingsOk
    \/ LoadSettingsError
    \/ SelectFolderOk
    \/ SelectFolderError
    \/ StopScan
    \/ \E s \in ScanIds : StartScan(s)
    \/ \E s \in ScanIds : ScanFolderOk(s)
    \/ \E s \in ScanIds : ScanFolderError(s)
    \/ \E s \in ScanIds : FetchMetadataOk(s)
    \/ \E s \in ScanIds : FetchMetadataError(s)
    \/ \E a \in ApplyIds : ApplyClick(a)
    \/ \E a \in ApplyIds : UpdateMetadataOk(a)
    \/ \E a \in ApplyIds : UpdateMetadataError(a)
    \/ \E a \in ApplyIds : RenameFileOk(a)
    \/ \E a \in ApplyIds : RenameFileError(a)
    \/ \E a \in ApplyIds : OrganizeFilesOk(a)
    \/ \E a \in ApplyIds : OrganizeFilesError(a)

Spec == Init /\ [][Next]_vars

----------------------------------------------------------------------------
(* The application after a first use: a scan of the folder has found one     *)
(* file and completed with a suggestion for it, Apply Changes has written it *)
(* under the default settings, and both invocations have returned.           *)

EarlierInventory ==
    LET scanned == File("/music", "one.mp3", SampleTags["one"])
        resolved == [scanned EXCEPT !.suggested_metadata = Some(<<RHigh>>)]
    IN << [resolved EXCEPT !.current_metadata = Some(EffectiveMetadata(resolved))] >>

InitRescan ==
    /\ selectedFolder = "/music"
    /\ isScanning = FALSE
    /\ files = << <<EarlierScan, 1>> >>
    /\ progress = Frac(100, 1)
    /\ statusMessage = SummaryMessage(1, 0, 0)
    /\ settings = DefaultSettings
    /\ heap = [s \in HeapIds |-> IF s = EarlierScan THEN EarlierInventory ELSE <<>>]
    /\ loads = LoadsPending
    /\ scan = [s \in ScanIds |-> IdleScan]
    /\ apply = [a \in ApplyIds |-> IdleApply]
    /\ modal = ClosedModal

SpecRescan == InitRescan /\ [][Next]_vars

----------------------------------------------------------------------------
(* What the invocations have done, read from their records *)

\* the calls to the command op that the invocation r has made for the file at pos
CallsFor(r, op, pos) ==
    { k \in DOMAIN r.calls : r.calls[k].op = op /\ r.calls[k].pos = pos }

\* how that call has ended: "none" when it has not been made
Outcome(r, op, pos) ==
    IF CallsFor(r, op, pos) = {} THEN "none"
    ELSE r.calls[CHOOSE k \in CallsFor(r, op, pos) : TRUE].res

\* the arguments of the update_metadata call made for the file at pos
UpdateCall(ap, pos) == ap.calls[CHOOSE k \in CallsFor(ap, "update_metadata", pos) : TRUE]

\* the loop of the invocation r is past the file at pos
Passed(r, pos) == r.pc \in {"done", "completed"} \/ pos < r.i

\* the record, as it is now, of the file at pos of the invocation ap of
\* handleApplyChanges, and of the invocation sc of handleStartScan
FileAt(ap, pos) == Obj(heap, ap.files[pos])
ScannedAt(sc, pos) == Obj(heap, sc.scannedFiles[pos])

\* the positions whose update_metadata call has ended with res
Written(ap, res) ==
    { pos \in DOMAIN ap.files : Outcome(ap, "update_metadata", pos) = res }

----------------------------------------------------------------------------
(* Failure of the write: App.tsx:118-172 *)

\* C1: for every file whose update_metadata call has failed, no rename_file and
\* no organize_files call is made, the failure count is the number of such
\* files, the error list has one entry "<filename>: <message>" for each of them
\* in order, the path and the filename of the file are those it had before the
\* pass, and the loop has gone on past the file.
WriteFailureIsTerminal ==
    \A a \in ApplyIds :
      LET ap == apply[a]
          failed == Written(ap, "err")
      IN /\ ap.errorCount = Cardinality(failed)
         /\ Len(ap.errors) = Cardinality(failed)
         /\ \A pos \in failed :
              LET rank == Cardinality({ q \in failed : q <= pos })
              IN /\ Cardinality(CallsFor(ap, "update_metadata", pos)) = 1
                 /\ CallsFor(ap, "rename_file", pos) = {}
                 /\ CallsFor(ap, "organize_files", pos) = {}
                 /\ Passed(ap, pos)
                 /\ ~ap.overlapped =>
                      /\ FileAt(ap, pos).path = ap.before[pos].path
                      /\ FileAt(ap, pos).filename = ap.before[pos].filename
                      /\ \E m \in ErrorMessages :
                           ap.errors[rank] = ap.before[pos].filename \o ": " \o m

\* A pass with rename and organize enabled has ended; the write of its first
\* file failed and its second file was written after that.
WriteFailedWithRenameEnabled ==
    \E a \in ApplyIds :
      /\ apply[a].pc = "done"
      /\ apply[a].settings.rename_files /\ apply[a].settings.organize_files
      /\ Outcome(apply[a], "update_metadata", 1) = "err"
      /\ Outcome(apply[a], "update_metadata", 2) = "ok"
      /\ Outcome(apply[a], "rename_file", 2) = "ok"
      /\ apply[a].errors = <<"one.mp3: io error">>

\* C2: current_metadata of a file is the metadata passed to its update_metadata
\* call once that call has succeeded, whatever rename_file and organize_files
\* do afterwards; until then, and when the call fails or is not made, it is the
\* value it had before the pass.
CurrentMetadataFollowsWrite ==
    \A a \in ApplyIds :
      LET ap == apply[a]
      IN ~ap.overlapped =>
           \A pos \in DOMAIN ap.files :
             FileAt(ap, pos).current_metadata =
               IF Outcome(ap, "update_metadata", pos) = "ok"
               THEN Some(UpdateCall(ap, pos).metadata)
               ELSE ap.before[pos].current_metadata

\* A pass has ended whose first file was written with a new genre and then
\* failed to be renamed, and the write of whose second file failed.
WrittenAndFailedInOnePass ==
    \E a \in ApplyIds :
      /\ apply[a].pc = "done"
      /\ Outcome(apply[a], "update_metadata", 1) = "ok"
      /\ Outcome(apply[a], "rename_file", 1) = "err"
      /\ Outcome(apply[a], "update_metadata", 2) = "err"
      /\ FileAt(apply[a], 1).current_metadata # apply[a].before[1].current_metadata
      /\ FileAt(apply[a], 1).current_metadata[1].genre = Some("House")
      /\ FileAt(apply[a], 2).current_metadata = apply[a].before[2].current_metadata

\* C3: the success count is the number of files past which the loop has gone
\* with a successful update_metadata call, and the failure count and the error
\* list count the failed update_metadata calls alone: a file whose rename_file
\* or organize_files call has failed is a file whose write succeeded, it keeps
\* the metadata written, and it is counted as a success.
SuccessIsTheWrite ==
    \A a \in ApplyIds :
      LET ap == apply[a]
      IN /\ ap.successCount =
              Cardinality({ pos \in Written(ap, "ok") : Passed(ap, pos) })
         /\ ap.errorCount = Cardinality(Written(ap, "err"))
         /\ Len(ap.errors) = ap.errorCount
         /\ \A pos \in DOMAIN ap.files :
              \/ Outcome(ap, "rename_file", pos) = "err"
              \/ Outcome(ap, "organize_files", pos) = "err"
              => /\ pos \in Written(ap, "ok")
                 /\ ~ap.overlapped =>
                      FileAt(ap, pos).current_metadata = Some(UpdateCall(ap, pos).metadata)

\* A pass over one file has ended: the file was written, neither renamed nor
\* organized because both calls failed, and it is the one success of the pass.
RenameAndOrganizeFailed ==
    \E a \in ApplyIds :
      /\ apply[a].pc = "done"
      /\ Len(apply[a].files) = 1
      /\ Outcome(apply[a], "update_metadata", 1) = "ok"
      /\ Outcome(apply[a], "rename_file", 1) = "err"
      /\ Outcome(apply[a], "organize_files", 1) = "err"
      /\ apply[a].successCount = 1
      /\ apply[a].errorCount = 0
      /\ apply[a].errors = <<>>

----------------------------------------------------------------------------
(* The files the apply pass leaves alone: App.tsx:110-117 *)

\* no suggestion list, an empty one, or a first suggestion with neither genre
\* nor artist
NothingToApply(file) ==
    \/ file.suggested_metadata = Null
    \/ file.suggested_metadata[1] = <<>>
    \/ /\ file.suggested_metadata[1][1].genre \in {Null, Some("")}
       /\ file.suggested_metadata[1][1].artist \in {Null, Some("")}

\* C4: for a file with nothing to apply no update_metadata, rename_file or
\* organize_files call is made, the record of the file is the one it was before
\* the pass, and the files counted as successes or failures are among the
\* others.
SkippedFilesAreUntouched ==
    \A a \in ApplyIds :
      LET ap == apply[a]
          skipped == { pos \in DOMAIN ap.files : NothingToApply(FileAt(ap, pos)) }
      IN /\ \A pos \in skipped :
              /\ \A op \in {"update_metadata", "rename_file", "organize_files"} :
                   CallsFor(ap, op, pos) = {}
              /\ ~ap.overlapped =>
                   [FileAt(ap, pos) EXCEPT !.suggested_metadata =
                                             ap.before[pos].suggested_metadata]
                     = ap.before[pos]
         /\ ap.successCount + ap.errorCount
              <= Cardinality({ pos \in DOMAIN ap.files \ skipped : Passed(ap, pos) })

\* A pass has ended that wrote its first file and left its second alone, whose
\* first suggestion has neither genre nor artist and whose second has both.
SkippedDespiteLaterSuggestion ==
    \E a \in ApplyIds :
      /\ apply[a].pc = "done"
      /\ Len(apply[a].files) = 2
      /\ Outcome(apply[a], "update_metadata", 1) = "ok"
      /\ FileAt(apply[a], 2).suggested_metadata = Some(<<RNone, RLow>>)
      /\ Outcome(apply[a], "update_metadata", 2) = "none"
      /\ FileAt(apply[a], 2) = apply[a].before[2]
      /\ apply[a].successCount = 1 /\ apply[a].errorCount = 0

----------------------------------------------------------------------------
(* The metadata written: App.tsx:113-126 *)

\* C5: the metadata passed to update_metadata has the title, album, year and
\* bpm that the file had in current_metadata before the pass, whatever their
\* values (a year or a bpm of 0 included), and its genre and artist are those
\* of the first suggestion where it has them and those of current_metadata
\* otherwise.
WrittenMetadataCarriesCurrentFields ==
    \A a \in ApplyIds :
      LET ap == apply[a]
      IN ~ap.overlapped =>
           \A k \in DOMAIN ap.calls :
             LET call == ap.calls[k]
                 was == ap.before[call.pos]
                 top == FileAt(ap, call.pos).suggested_metadata[1][1]
             IN call.op = "update_metadata" =>
                  /\ call.metadata.title = Field(was, "title")
                  /\ call.metadata.album = Field(was, "album")
                  /\ call.metadata.year = Field(was, "year")
                  /\ call.metadata.bpm = Field(was, "bpm")
                  /\ call.metadata.genre =
                       IF top.genre \notin {Null, Some("")} THEN top.genre
                       ELSE Field(was, "genre")
                  /\ call.metadata.artist =
                       IF top.artist \notin {Null, Some("")} THEN top.artist
                       ELSE Field(was, "artist")

\* update_metadata has been called for a file tagged with the year 0.
WrittenWithYearZero ==
    \E a \in ApplyIds : \E k \in DOMAIN apply[a].calls :
      /\ apply[a].calls[k].op = "update_metadata"
      /\ Field(apply[a].before[apply[a].calls[k].pos], "year") = Some(0)
      /\ apply[a].calls[k].metadata.year = Null

----------------------------------------------------------------------------
(* Passes in flight: App.tsx:213-216, 276-279 *)

\* C6: no invocation of handleStartScan and invocation of handleApplyChanges
\* are in flight at the same time on the same file objects.
ScanAndApplyNeverOverlap ==
    \A s \in ScanIds, a \in ApplyIds :
      ~ /\ ScanInFlight(s)
        /\ ApplyInFlight(a)
        /\ ScansOf(scan[s].scannedFiles) \cap ScansOf(apply[a].files) # {}

----------------------------------------------------------------------------
(* Stop Scan and the file in flight: App.tsx:74-88, 214 *)

\* C7: the result of every fetch_metadata call that has succeeded is the
\* suggested_metadata of its file, whether or not Stop Scan was pressed while
\* the call was pending.
FetchResultIsAttached ==
    \A s \in ScanIds : \A k \in DOMAIN scan[s].calls :
      LET call == scan[s].calls[k]
      IN call.res = "ok" =>
           ScannedAt(scan[s], call.pos).suggested_metadata = Some(call.result)

\* Stop Scan was pressed while the call for the first file was pending; the
\* call has succeeded since, its result is attached, and the pass has gone on.
AttachedAfterStop ==
    \E s \in ScanIds :
      /\ scan[s].stopAt = 1
      /\ ~isScanning
      /\ Outcome(scan[s], "fetch_metadata", 1) = "ok"
      /\ ScannedAt(scan[s], 1).suggested_metadata = Some(<<RHigh>>)
      /\ scan[s].pc = "fetch_metadata" /\ scan[s].i = 2

----------------------------------------------------------------------------
(* Failure of a fetch: App.tsx:74-92 *)

\* both an artist and a title that are known and not empty
HasArtistAndTitle(file) ==
    /\ file.current_metadata # Null
    /\ file.current_metadata[1].artist \notin {Null, Some("")}
    /\ file.current_metadata[1].title \notin {Null, Some("")}

\* C8: a file whose fetch_metadata call has failed has no suggested_metadata
\* and the loop has gone on past it; the calls are made in the order of the
\* inventory and none is missing for a file with artist and title that the
\* loop has passed; the pass does not end in its error state, and when it has
\* ended its last status is the completion message.
FetchFailureIsIsolated ==
    \A s \in ScanIds :
      LET sc == scan[s]
          n == Len(sc.scannedFiles)
      IN (\E k \in DOMAIN sc.calls : sc.calls[k].res = "err") =>
           /\ \A k \in DOMAIN sc.calls :
                sc.calls[k].res = "err" =>
                  /\ ScannedAt(sc, sc.calls[k].pos).suggested_metadata = Null
                  /\ Passed(sc, sc.calls[k].pos)
           /\ \A j, k \in DOMAIN sc.calls : j < k => sc.calls[j].pos < sc.calls[k].pos
           /\ \A pos \in 1..n :
                Passed(sc, pos) /\ HasArtistAndTitle(ScannedAt(sc, pos))
                => CallsFor(sc, "fetch_metadata", pos) # {}
           /\ sc.pc # "error"
           /\ sc.pc = "completed" =>
                /\ Last(sc.msgs) = "Completed! Processed " \o ToString(n) \o " files"
                /\ Last(sc.progs) = Frac(100, 1)
                /\ files = sc.scannedFiles

\* A pass has completed in which the call for the first file failed and the
\* call for the second was made and succeeded.
CompletedAfterFetchFailure ==
    \E s \in ScanIds :
      /\ scan[s].pc = "completed"
      /\ Outcome(scan[s], "fetch_metadata", 1) = "err"
      /\ Outcome(scan[s], "fetch_metadata", 2) = "ok"
      /\ ScannedAt(scan[s], 1).suggested_metadata = Null
      /\ ScannedAt(scan[s], 2).suggested_metadata # Null
      /\ statusMessage = "Completed! Processed 2 files"

----------------------------------------------------------------------------
(* The files that are fetched: App.tsx:74-86 *)

\* C9: fetch_metadata is called for a file only if it has an artist and a
\* title, it has been called for every such file that the loop has reached, and
\* a file without artist or title has no suggested_metadata, at the end of the
\* pass as before.
FetchedIffArtistAndTitle ==
    \A s \in ScanIds :
      LET sc == scan[s]
      IN \A pos \in DOMAIN sc.scannedFiles :
           LET file == ScannedAt(sc, pos)
               reached == sc.pc = "completed" \/ (sc.pc = "fetch_metadata" /\ pos <= sc.i)
           IN /\ CallsFor(sc, "fetch_metadata", pos) # {} => HasArtistAndTitle(file)
              /\ reached /\ HasArtistAndTitle(file)
                   => Cardinality(CallsFor(sc, "fetch_metadata", pos)) = 1
              /\ ~HasArtistAndTitle(file) => file.suggested_metadata = Null

\* A pass has completed over a file with an artist and no title, which was not
\* fetched, and a file with both, which was.
CompletedWithUnfetchedFile ==
    \E s \in ScanIds :
      /\ scan[s].pc = "completed"
      /\ Len(scan[s].scannedFiles) = 2
      /\ ScannedAt(scan[s], 1).current_metadata # Null
      /\ ScannedAt(scan[s], 1).current_metadata[1].artist = Some("Daft Punk")
      /\ ScannedAt(scan[s], 1).current_metadata[1].title = Some("")
      /\ Outcome(scan[s], "fetch_metadata", 1) = "none"
      /\ ScannedAt(scan[s], 1).suggested_metadata = Null
      /\ Outcome(scan[s], "fetch_metadata", 2) = "ok"

----------------------------------------------------------------------------
(* Progress: App.tsx:61-91, 101-177 *)

\* a pass in flight goes on by this step: no Start Scan or Apply Changes click
PassGoesOn ==
    /\ \/ \E s \in ScanIds : ScanInFlight(s)
       \/ \E a \in ApplyIds : ApplyInFlight(a)
    /\ \A s \in ScanIds : scan[s].pc = "idle" => scan'[s].pc = "idle"
    /\ \A a \in ApplyIds : apply[a].pc = "idle" => apply'[a].pc = "idle"

InRange(p) == Leq(Frac(0, 1), p) /\ Leq(p, Frac(100, 1))

\* C10: while a pass is in flight, no step other than the start of a pass
\* lowers progress, and progress is between 0 and 100.
ProgressNeverFallsWithinPass ==
    [][PassGoesOn => Leq(progress, progress') /\ InRange(progress')]_vars

\* an apply pass is in flight while progress stands at 100 from a scan that
\* has completed since the apply pass was started
ApplyInFlightAtFullProgress ==
    \E a \in ApplyIds, s \in ScanIds :
      /\ ApplyInFlight(a)
      /\ scan[s].pc = "completed"
      /\ progress = Frac(100, 1)
      /\ apply[a].progs = <<Frac(0, 1)>>

----------------------------------------------------------------------------
(* Progress after each file: App.tsx:87-91, 176 *)

\* the rational p is num / den
IsRatio(p, num, den) == p[1] * den = p[2] * num

\* the number of files the loop of the invocation r has gone past, of n
FilesPassed(r, n) == IF r.pc \in {"done", "completed"} THEN n ELSE r.i - 1

\* C11: the values a pass has set progress to are its baseline and then one
\* value for each file its loop has gone past, fetched or written or not:
\* 50 + k/n*50 after the k-th of n files in handleStartScan (and 100 at its
\* end), k/n*100 in handleApplyChanges; the value after the last file is 100.
ProgressAdvancesAfterEveryFile ==
    /\ \A s \in ScanIds :
         LET sc == scan[s]
             n == Len(sc.scannedFiles)
             m == FilesPassed(sc, n)
         IN sc.pc \in {"fetch_metadata", "completed"} =>
              /\ Len(sc.progs) = 2 + m + (IF sc.pc = "completed" THEN 1 ELSE 0)
              /\ sc.progs[1] = <<10, 1>> /\ sc.progs[2] = <<50, 1>>
              /\ \A k \in 1..m : IsRatio(sc.progs[2 + k], 50 * n + 50 * k, n)
              /\ sc.pc = "completed" => Last(sc.progs) = <<100, 1>>
              /\ sc.pc = "completed" /\ n > 0 => sc.progs[2 + n] = <<100, 1>>
    /\ \A a \in ApplyIds :
         LET ap == apply[a]
             n == Len(ap.files)
             m == FilesPassed(ap, n)
         IN ApplyInFlight(a) \/ ApplyReturned(a) =>
              /\ Len(ap.progs) = 1 + m
              /\ ap.progs[1] = <<0, 1>>
              /\ \A k \in 1..m : IsRatio(ap.progs[1 + k], 100 * k, n)
              /\ ApplyReturned(a) => Last(ap.progs) = <<100, 1>> /\ progress = <<100, 1>>

\* An apply pass over two files has ended: the write of the first failed, the
\* second was skipped, and progress was set to 0, 50 and 100.
ProgressOverFailedAndSkipped ==
    \E a \in ApplyIds :
      /\ apply[a].pc = "done"
      /\ Len(apply[a].files) = 2
      /\ Outcome(apply[a], "update_metadata", 1) = "err"
      /\ Outcome(apply[a], "update_metadata", 2) = "none"
      /\ apply[a].progs = << <<0, 1>>, <<50, 1>>, <<100, 1>> >>
      /\ progress = <<100, 1>>

----------------------------------------------------------------------------
(* Order of the inventory: App.tsx:108-179 *)

\* C12: the calls of an apply pass are made file by file in the order of the
\* inventory, at most one call of each kind for a file and none for a file the
\* loop has not reached; updatedFiles holds the objects of files at the same
\* indexes, and the array the pass publishes at its end is that array.
ApplyKeepsInventoryOrder ==
    \A a \in ApplyIds :
      LET ap == apply[a]
      IN /\ \A j, k \in DOMAIN ap.calls : j < k => ap.calls[j].pos <= ap.calls[k].pos
         /\ \A pos \in DOMAIN ap.files :
              /\ \A op \in {"update_metadata", "rename_file", "organize_files"} :
                   Cardinality(CallsFor(ap, op, pos)) <= 1
              /\ ~Passed(ap, pos) /\ pos # ap.i =>
                   \A k \in DOMAIN ap.calls : ap.calls[k].pos # pos
         /\ Len(ap.updatedFiles) = Len(ap.files)
         /\ \A pos \in DOMAIN ap.files : ap.updatedFiles[pos] = ap.files[pos]
         /\ ApplyReturned(a) =>
              /\ Len(files) = Len(ap.before)
              /\ \A pos \in DOMAIN ap.files : files[pos] = ap.files[pos]

\* A pass over two files has ended: the first was written and renamed and
\* failed to be organized, the write of the second failed, and the inventory
\* has the two files at their places, the first under its new name.
PublishedAfterMixedFailures ==
    \E a \in ApplyIds :
      /\ apply[a].pc = "done"
      /\ Len(apply[a].files) = 2 /\ Len(files) = 2
      /\ Outcome(apply[a], "rename_file", 1) = "ok"
      /\ Outcome(apply[a], "organize_files", 1) = "err"
      /\ Outcome(apply[a], "update_metadata", 2) = "err"
      /\ Obj(heap, files[1]).filename # apply[a].before[1].filename
      /\ Obj(heap, files[1]).extension = apply[a].before[1].extension
      /\ Obj(heap, files[2]) = apply[a].before[2]

----------------------------------------------------------------------------
(* Failure of scan_folder: App.tsx:65-98 *)

\* C13: the step in which scan_folder fails ends the invocation without a
\* fetch_metadata call, leaves the inventory and its records as they were,
\* sets the status message to "Error: <the error>" and isScanning to false.
ScanFolderFailureAborts ==
    [][\A s \in ScanIds :
         scan[s].pc = "scan_folder" /\ scan'[s].pc = "error" =>
           /\ scan'[s].calls = <<>>
           /\ scan'[s].scannedFiles = <<>>
           /\ files' = files
           /\ \A k \in DOMAIN files : Obj(heap', files[k]) = Obj(heap, files[k])
           /\ \E e \in ErrorMessages : statusMessage' = "Error: " \o e
           /\ isScanning' = FALSE]_vars

\* scan_folder has failed for a scan started over the inventory of the earlier
\* scan, which is still the inventory.
ScanFolderFailedOverInventory ==
    \E s \in ScanIds :
      /\ scan[s].pc = "error"
      /\ scan[s].calls = <<>>
      /\ files = << <<EarlierScan, 1>> >>
      /\ Obj(heap, files[1]).suggested_metadata = Some(<<RHigh>>)
      /\ statusMessage = "Error: io error"
      /\ ~isScanning

----------------------------------------------------------------------------
(* Failure of load_settings: App.tsx:16-36 *)

\* C14: the step in which a load_settings call is rejected shows in the status
\* message.
LoadFailureIsSurfaced ==
    [][loads'.rejected /\ loads'.pending < loads.pending
         => statusMessage' # statusMessage]_vars

\* load_settings was rejected, and an apply pass is in flight with the settings
\* the application began with, under the status message of the pass.
AppliesAfterLoadFailure ==
    \E a \in ApplyIds :
      /\ loads.rejected
      /\ ApplyInFlight(a)
      /\ apply[a].settings = DefaultSettings
      /\ \A s \in ScanIds : ~ScanInFlight(s)
      /\ Last(apply[a].msgs) = "Applying metadata changes..."

----------------------------------------------------------------------------
(* Rename and organize disabled: App.tsx:16-23, 136-164 *)

\* C15: a pass started with rename_files and organize_files both false makes
\* no rename_file and no organize_files call and leaves the path and the
\* filename of every file as they were, and current_metadata of a file whose
\* write has succeeded is the metadata written.
NoMovesWhenDisabled ==
    \A a \in ApplyIds :
      LET ap == apply[a]
      IN ~ap.settings.rename_files /\ ~ap.settings.organize_files =>
           /\ \A k \in DOMAIN ap.calls : ap.calls[k].op = "update_metadata"
           /\ ap.organizedCount = 0
           /\ ~ap.overlapped =>
                \A pos \in DOMAIN ap.files :
                  /\ FileAt(ap, pos).path = ap.before[pos].path
                  /\ FileAt(ap, pos).filename = ap.before[pos].filename
                  /\ Outcome(ap, "update_metadata", pos) = "ok" =>
                       FileAt(ap, pos).current_metadata = Some(UpdateCall(ap, pos).metadata)

\* A pass under the default settings has ended: the file tagged Daft Punk /
\* One More Time has the genre House and its path and filename of before.
AppliedUnderDefaultSettings ==
    \E a \in ApplyIds :
      /\ apply[a].pc = "done"
      /\ apply[a].settings = DefaultSettings
      /\ Outcome(apply[a], "update_metadata", 1) = "ok"
      /\ apply[a].successCount = 1
      /\ apply[a].before[1].current_metadata[1].genre = Null
      /\ FileAt(apply[a], 1).current_metadata[1].genre = Some("House")
      /\ FileAt(apply[a], 1).current_metadata[1].title = Some("One More Time")
      /\ FileAt(apply[a], 1).path = <<"/music", "one.mp3">>
      /\ FileAt(apply[a], 1).filename = "one.mp3"

----------------------------------------------------------------------------
(* The order of the suggestions: App.tsx:76-82, 113-115 *)

\* High > Medium > Low
Score(r) == CASE r.confidence = "High" -> 3
              [] r.confidence = "Medium" -> 2
              [] r.confidence = "Low" -> 1

\* the results of seq that have the confidence c, in their order in seq
OfConfidence(seq, c) == SelectSeq(seq, LAMBDA r : r.confidence = c)

----------------------------------------------------------------------------
(* A new scan and the inventory: App.tsx:66-90 *)

\* C17: by the step in which scan_folder returns to an invocation, and by the
\* step in which the invocation completes, the inventory is the array of the
\* objects scan_folder returned to it, in their order and no others; at the
\* first of the two the records are as scan_folder returned them, without
\* suggestions.
ScanReplacesInventory ==
    [][\A s \in ScanIds :
         LET returns == scan[s].pc = "scan_folder"
                        /\ scan'[s].pc \in {"fetch_metadata", "completed"}
             completes == scan[s].pc # "completed" /\ scan'[s].pc = "completed"
         IN /\ returns \/ completes =>
                 /\ files' = scan'[s].scannedFiles
                 /\ Len(files') = Len(heap'[s])
                 /\ \A k \in DOMAIN files' : files'[k] = <<s, k>>
            /\ returns =>
                 /\ heap'[s] \in Inventories(scan[s].path)
                 /\ \A k \in DOMAIN files' : Obj(heap', files'[k]).suggested_metadata = Null]_vars

\* A scan started over the inventory of the earlier scan has returned two
\* files: they are the inventory, and the record of the earlier scan, with its
\* suggestion and the genre applied to it, is referenced no longer.
EarlierInventoryReplaced ==
    \E s \in ScanIds :
      /\ scan[s].pc = "fetch_metadata"
      /\ files = << <<s, 1>>, <<s, 2>> >>
      /\ Obj(heap, files[2]).filename = "one.mp3"
      /\ Obj(heap, files[2]).suggested_metadata = Null
      /\ Obj(heap, files[2]).current_metadata[1].genre = Null
      /\ heap[EarlierScan] = <<>>

----------------------------------------------------------------------------
(* The order of the calls of an apply pass: App.tsx:128-164 *)

\* update_metadata, then rename_file, then organize_files
StepOf(op) == CASE op = "update_metadata" -> 1
                [] op = "rename_file" -> 2
                [] op = "organize_files" -> 3

\* the rename_file call made for the file at pos
RenameCall(ap, pos) == ap.calls[CHOOSE k \in CallsFor(ap, "rename_file", pos) : TRUE]

\* C18: a call of an apply pass is made only when every call made before it
\* has ended; the calls are made file by file, and for one file in the order
\* update_metadata, rename_file, organize_files; rename_file and
\* organize_files follow a successful update_metadata and are made only when
\* enabled, organize_files only with a base folder, which it is given; and
\* organize_files is given the path rename_file returned when it succeeded, and
\* the path update_metadata was given when rename_file failed or was not called.
CallsAreSequential ==
    \A a \in ApplyIds :
      LET ap == apply[a]
      IN /\ \A k \in DOMAIN ap.calls : k < Len(ap.calls) => ap.calls[k].res # "pending"
         /\ \A j, k \in DOMAIN ap.calls :
              j < k => \/ ap.calls[j].pos < ap.calls[k].pos
                       \/ /\ ap.calls[j].pos = ap.calls[k].pos
                          /\ StepOf(ap.calls[j].op) < StepOf(ap.calls[k].op)
         /\ \A k \in DOMAIN ap.calls :
              LET call == ap.calls[k]
              IN /\ call.op = "rename_file" =>
                      /\ Outcome(ap, "update_metadata", call.pos) = "ok"
                      /\ ap.settings.rename_files
                 /\ call.op = "organize_files" =>
                      /\ Outcome(ap, "update_metadata", call.pos) = "ok"
                      /\ Outcome(ap, "rename_file", call.pos) # "pending"
                      /\ ap.settings.rename_files
                           => Outcome(ap, "rename_file", call.pos) \in {"ok", "err"}
                      /\ ap.settings.organize_files
                      /\ ap.selectedFolder # ""
                      /\ call.base_folder = ap.selectedFolder
                      /\ Outcome(ap, "rename_file", call.pos) = "ok" =>
                           call.file_path = RenameCall(ap, call.pos).newPath
                      /\ Outcome(ap, "rename_file", call.pos) # "ok" /\ ~ap.overlapped =>
                           call.file_path = UpdateCall(ap, call.pos).file_path
         /\ \A pos \in DOMAIN ap.files :
              /\ ap.settings.rename_files /\ Outcome(ap, "update_metadata", pos) = "ok"
                   => CallsFor(ap, "rename_file", pos) # {}
              /\ ( /\ ap.settings.organize_files /\ ap.selectedFolder # ""
                   /\ Outcome(ap, "update_metadata", pos) = "ok"
                   /\ Outcome(ap, "rename_file", pos) # "pending" )
                   => CallsFor(ap, "organize_files", pos) # {}

\* A pass with rename and organize enabled has ended: the first file was
\* written, renamed and organized from its new path, and the second was
\* written, failed to be renamed and was organized from its old path.
OrganizedFromRenamedAndFromOldPath ==
    \E a \in ApplyIds :
      /\ apply[a].pc = "done"
      /\ Len(apply[a].calls) = 6
      /\ apply[a].calls[2].op = "rename_file" /\ apply[a].calls[2].res = "ok"
      /\ apply[a].calls[3].op = "organize_files"
      /\ apply[a].calls[3].file_path = apply[a].calls[2].newPath
      /\ apply[a].calls[3].file_path # apply[a].calls[1].file_path
      /\ apply[a].calls[5].op = "rename_file" /\ apply[a].calls[5].res = "err"
      /\ apply[a].calls[6].op = "organize_files"
      /\ apply[a].calls[6].file_path = apply[a].calls[4].file_path

----------------------------------------------------------------------------
(* The counters and the summary: App.tsx:104-193 *)

\* C19: when an apply pass has ended, its success count, its failure count and
\* the number of files for which it made no update_metadata call add up to the
\* number of files; the error list has as many entries as the failure count;
\* the organized count is the number of organize_files calls that succeeded and
\* is at most the success count; and the last message it set is the summary of the
\* success count, followed by the organized count if it is not 0 and by the
\* failure count if it is not 0.
CountersAccountForInventory ==
    \A a \in ApplyIds :
      LET ap == apply[a]
          skipped == { pos \in DOMAIN ap.files : CallsFor(ap, "update_metadata", pos) = {} }
          organized == { pos \in DOMAIN ap.files : Outcome(ap, "organize_files", pos) = "ok" }
          updated == "Completed! " \o ToString(ap.successCount)
                       \o " files updated successfully"
          andOrganized == ", " \o ToString(ap.organizedCount) \o " organized"
          andFailed == ", " \o ToString(ap.errorCount) \o " failed"
      IN ap.pc = "done" =>
           /\ ap.successCount + ap.errorCount + Cardinality(skipped) = Len(ap.files)
           /\ Len(ap.errors) = ap.errorCount
           /\ ap.organizedCount = Cardinality(organized)
           /\ ap.organizedCount <= ap.successCount
           /\ Last(ap.msgs) =
                CASE ap.organizedCount = 0 /\ ap.errorCount = 0 -> updated
                  [] ap.organizedCount > 0 /\ ap.errorCount = 0 -> updated \o andOrganized
                  [] ap.organizedCount = 0 /\ ap.errorCount > 0 -> updated \o andFailed
                  [] ap.organizedCount > 0 /\ ap.errorCount > 0 ->
                       (updated \o andOrganized) \o andFailed

\* A pass over two files has ended with one file written and organized and one
\* failure, and its summary names all three counts.
SummaryWithOrganizedAndFailed ==
    \E a \in ApplyIds :
      /\ apply[a].pc = "done"
      /\ Len(apply[a].files) = 2
      /\ apply[a].successCount = 1 /\ apply[a].organizedCount = 1 /\ apply[a].errorCount = 1
      /\ Last(apply[a].msgs) = "Completed! 1 files updated successfully, 1 organized, 1 failed"

----------------------------------------------------------------------------
(* The isScanning flag: App.tsx:55-99, 213-216 *)

\* C20: isScanning is never false while an invocation of handleStartScan is
\* still running.
ScanningWhilePassInFlight ==
    \A s \in ScanIds : ScanInFlight(s) => isScanning

\* Stop Scan has been clicked while scan_folder is pending: the invocation is
\* still suspended at its await, isScanning is false and the button is Start
\* Scan again.
StartOfferedDuringScanFolder ==
    \E s \in ScanIds :
      /\ scan[s].pc = "scan_folder"
      /\ ~isScanning
      /\ ScanButtonEnabled
      /\ statusMessage = "Scanning for audio files..."

----------------------------------------------------------------------------
(* The folder given to organize_files: App.tsx:38-53, 66-70, 152-158 *)

\* The folders the dialog of App.tsx:40 can return besides those of Folders.
OtherFolders == {"/other"}

\* App.tsx:45-48  the dialog returned a folder that is not in Folders
SelectOtherFolderOk == \E selected \in OtherFolders : SelectFolder(selected)

NextFolders == Next \/ SelectOtherFolderOk

\* The program with two folders to select from.
SpecFolders == Init /\ [][NextFolders]_vars

\* scan_folder returns the files of the folder it is given (App.tsx:66): the
\* folder a file of the inventory was scanned from is the first part of the
\* path it had when Apply Changes was clicked.
ScannedFrom(ap, pos) == ap.before[pos].path[1]

\* C21: the base_folder of every organize_files call of an apply pass is the
\* folder from which the inventory of that pass was scanned.
OrganizedUnderScannedFolder ==
    \A a \in ApplyIds :
      \A k \in DOMAIN apply[a].calls :
        LET call == apply[a].calls[k]
        IN call.op = "organize_files" =>
             call.base_folder = ScannedFrom(apply[a], call.pos)

\* A file scanned from /music has been moved under /other, the folder selected
\* after the scan.
MovedUnderFolderSelectedLater ==
    \E a \in ApplyIds :
      /\ apply[a].pc = "done"
      /\ Len(apply[a].files) >= 1
      /\ ScannedFrom(apply[a], 1) = "/music"
      /\ Outcome(apply[a], "organize_files", 1) = "ok"
      /\ Obj(heap, apply[a].updatedFiles[1]).path[1] = "/other"

----------------------------------------------------------------------------
(* A second apply pass over the inventory of the first: App.tsx:113-134 *)

\* The file after an apply pass in which every update_metadata call has
\* succeeded: written when the guard of lines 113-117 lets it through, and
\* then holding what was written (line 134).
AfterApply(file) ==
    IF Applicable(file)
    THEN [file EXCEPT !.current_metadata = Some(EffectiveMetadata(file))]
    ELSE file

\* The suggestions the first scan has attached: one with an artist and a
\* genre, one with a genre only, and a list whose first entry has neither.
EarlierSuggestions == { <<RHigh>>, <<RGenre>>, <<RNone, RLow>> }

\* The inventories a first scan of one file with an artist and a title, and a
\* first apply pass under the default settings, have left.
EarlierInventories ==
    { << AfterApply([File("/music", name \o ".mp3", SampleTags[name])
                       EXCEPT !.suggested_metadata = Some(suggested)]) >> :
        name \in {"one", "zero"}, suggested \in EarlierSuggestions }

\* The application after a first use, as in InitRescan, for each of these
\* inventories.
InitReapply ==
    /\ selectedFolder = "/music"
    /\ isScanning = FALSE
    /\ files = << <<EarlierScan, 1>> >>
    /\ progress = Frac(100, 1)
    /\ \E earlier \in EarlierInventories :
         /\ heap = [s \in HeapIds |-> IF s = EarlierScan THEN earlier ELSE <<>>]
         /\ statusMessage = SummaryMessage(IF Applicable(earlier[1]) THEN 1 ELSE 0, 0, 0)
    /\ settings = DefaultSettings
    /\ loads = LoadsPending
    /\ scan = [s \in ScanIds |-> IdleScan]
    /\ apply = [a \in ApplyIds |-> IdleApply]
    /\ modal = ClosedModal

SpecReapply == InitReapply /\ [][Next]_vars

\* C22: an apply pass over the inventory an earlier pass has left, every write
\* of which had succeeded, calls update_metadata for the files the earlier pass
\* wrote and for no other, with the metadata the earlier pass wrote, which is
\* the current_metadata the file had at the click; and once it is past a file
\* the current_metadata of the file is what it was at the click.
SecondApplyWritesTheSame ==
    \A a \in ApplyIds :
      \A pos \in DOMAIN apply[a].files :
        LET ap == apply[a]
            was == ap.before[pos]
        IN (ap.files[pos][1] = EarlierScan /\ ~ap.overlapped) =>
             /\ CallsFor(ap, "update_metadata", pos) # {} =>
                  /\ Applicable(was)
                  /\ Some(UpdateCall(ap, pos).metadata) = was.current_metadata
             /\ (Passed(ap, pos) /\ Applicable(was)) =>
                  CallsFor(ap, "update_metadata", pos) # {}
             /\ Passed(ap, pos) => FileAt(ap, pos).current_metadata = was.current_metadata

\* The file whose year 0 the first pass has written as absent, and whose genre
\* it has replaced by the suggested one, has been written a second time with
\* the same metadata.
WrittenTwiceWithSuggestedGenre ==
    \E a \in ApplyIds :
      /\ apply[a].pc = "done"
      /\ apply[a].files = << <<EarlierScan, 1>> >>
      /\ apply[a].before[1].filename = "zero.mp3"
      /\ Outcome(apply[a], "update_metadata", 1) = "ok"
      /\ UpdateCall(apply[a], 1).metadata.genre = Some("Pop")
      /\ UpdateCall(apply[a], 1).metadata.year = Null
      /\ FileAt(apply[a], 1).current_metadata = Some(UpdateCall(apply[a], 1).metadata)

----------------------------------------------------------------------------
(* The settings dialog: SettingsModal.tsx:12-56, 198-204; App.tsx:231, 290-297 *)

\* The save_settings calls and timers of the dialog that may be outstanding
\* together, the load_settings calls of App, and those of the dialog.
MaxSaves == 2
MaxLoads == 2
MaxModalLoads == 1

\* The checkboxes of SettingsModal.tsx:139-170.
Checkboxes == {"backup_before_changes", "organize_files", "rename_files"}

\* seq without its element at k
Without(seq, k) == [j \in 1..(Len(seq) - 1) |-> IF j < k THEN seq[j] ELSE seq[j + 1]]

\* App.tsx:231  the Settings button; SettingsModal.tsx:25-29  the effect on isOpen
OpenSettings ==
    /\ ~modal.isOpen
    /\ modal.loading < MaxModalLoads
    /\ modal' = [modal EXCEPT !.isOpen = TRUE, !.loading = @ + 1]
    /\ UNCHANGED <<selectedFolder, isScanning, files, progress, statusMessage, settings,
                   heap, loads, scan, apply>>

\* SettingsModal.tsx:65, 192  the X button and Cancel: onClose (App.tsx:292)
CloseSettings ==
    /\ modal.isOpen
    /\ modal' = [modal EXCEPT !.isOpen = FALSE]
    /\ UNCHANGED <<selectedFolder, isScanning, files, progress, statusMessage, settings,
                   heap, loads, scan, apply>>

\* SettingsModal.tsx:31-33  load_settings returned
ModalLoadSettingsOk ==
    /\ modal.loading > 0
    /\ \E loadedSettings \in SavedSettings :
         modal' = [modal EXCEPT !.settings = loadedSettings, !.loading = @ - 1]
    /\ UNCHANGED <<selectedFolder, isScanning, files, progress, statusMessage, settings,
                   heap, loads, scan, apply>>

\* SettingsModal.tsx:34-36  the catch block only writes to the console
ModalLoadSettingsError ==
    /\ modal.loading > 0
    /\ modal' = [modal EXCEPT !.loading = @ - 1]
    /\ UNCHANGED <<selectedFolder, isScanning, files, progress, statusMessage, settings,
                   heap, loads, scan, apply>>

\* SettingsModal.tsx:142, 154, 166  onChange of a checkbox
EditSettings ==
    /\ modal.isOpen
    /\ \E box \in Checkboxes :
         modal' = [modal EXCEPT !.settings = [@ EXCEPT ![box] = ~@]]
    /\ UNCHANGED <<selectedFolder, isScanning, files, progress, statusMessage, settings,
                   heap, loads, scan, apply>>

\* SettingsModal.tsx:200  disabled={saveStatus === 'saving'}
SaveButtonEnabled == modal.isOpen /\ modal.saveStatus # "saving"

\* SettingsModal.tsx:39-44  handleSave up to its await
SaveClick ==
    /\ SaveButtonEnabled
    /\ Len(modal.saves) + Len(modal.timers) < MaxSaves
    /\ loads.pending + Len(modal.saves) < MaxLoads
    /\ modal' = [modal EXCEPT !.saveStatus = "saving", !.errorMessage = "",
                              !.saves = Append(@, modal.settings)]
    /\ UNCHANGED <<selectedFolder, isScanning, files, progress, statusMessage, settings,
                   heap, loads, scan, apply>>

\* SettingsModal.tsx:44-49  save_settings returned; onSettingsSaved is
\* App.tsx:293-296: loadSettings() up to its await, then the status message
SaveSettingsOk(k) ==
    /\ k \in DOMAIN modal.saves
    /\ modal' = [modal EXCEPT !.saves = Without(@, k), !.saveStatus = "success",
                              !.timers = Append(@, "close")]
    /\ loads' = [loads EXCEPT !.pending = @ + 1]
    /\ statusMessage' = "Settings saved successfully!"
    /\ UNCHANGED <<selectedFolder, isScanning, files, progress, settings, heap, scan,
                   apply>>

\* SettingsModal.tsx:50-54  save_settings was rejected
SaveSettingsError(k) ==
    /\ k \in DOMAIN modal.saves
    /\ \E error \in ErrorMessages :
         modal' = [modal EXCEPT !.saves = Without(@, k), !.saveStatus = "error",
                                !.errorMessage = error,
                                !.timers = Append(@, "reset")]
    /\ UNCHANGED <<selectedFolder, isScanning, files, progress, statusMessage, settings,
                   heap, loads, scan, apply>>

\* A timer comes due before those created after it with the same or a longer
\* delay: the callback at k can run when every timer created before it is a
\* "reset" (3000 ms) and it is a "close" (1000 ms), or when it is the oldest.
Due(k) ==
    /\ k \in DOMAIN modal.timers
    /\ \A j \in 1..(k - 1) : modal.timers[j] = "reset" /\ modal.timers[k] = "close"

\* SettingsModal.tsx:46-49  the callback after a success: onClose, then idle
CloseTimerFires ==
    /\ \E k \in DOMAIN modal.timers :
         /\ Due(k)
         /\ modal.timers[k] = "close"
         /\ modal' = [modal EXCEPT !.timers = Without(@, k), !.isOpen = FALSE,
                                   !.saveStatus = "idle"]
    /\ UNCHANGED <<selectedFolder, isScanning, files, progress, statusMessage, settings,
                   heap, loads, scan, apply>>

\* SettingsModal.tsx:53  the callback after an error
ResetTimerFires ==
    /\ \E k \in DOMAIN modal.timers :
         /\ Due(k)
         /\ modal.timers[k] = "reset"
         /\ modal' = [modal EXCEPT !.timers = Without(@, k), !.saveStatus = "idle"]
    /\ UNCHANGED <<selectedFolder, isScanning, files, progress, statusMessage, settings,
                   heap, loads, scan, apply>>

NextSettings ==
    \/ LoadSettingsOk
    \/ LoadSettingsError
    \/ OpenSettings
    \/ CloseSettings
    \/ ModalLoadSettingsOk
    \/ ModalLoadSettingsError
    \/ EditSettings
    \/ SaveClick
    \/ \E k \in 1..MaxSaves : SaveSettingsOk(k)
    \/ \E k \in 1..MaxSaves : SaveSettingsError(k)
    \/ CloseTimerFires
    \/ ResetTimerFires

\* The application with its settings dialog, no folder selected.
SpecSettings == Init /\ [][NextSettings]_vars

\* C23: at most one save_settings call of the dialog is pending, and while one
\* is pending saveStatus is 'saving', which disables the Save button.
OneSaveInFlight ==
    /\ Len(modal.saves) <= 1
    /\ Len(modal.saves) > 0 => modal.saveStatus = "saving"

\* Two save_settings calls are pending: the second was made after the first
\* save had failed, the third after the timer of that failure had set
\* saveStatus back to 'idle' while the second was pending.
TwoSavesInFlight ==
    /\ Len(modal.saves) = 2
    /\ modal.timers = <<>>
    /\ modal.saveStatus = "saving"
    /\ modal.isOpen

====
